---- MODULE Spec2Model ----
(***************************************************************************)
(* Model of the batch commit-report generator (src/gpt.js, second main):   *)
(* range validation, commit listing, grouping by UTC calendar date,        *)
(* per-commit summarisation with isolated failures, report assembly and    *)
(* one file write per date.  generateMessage (src/gpt.js:36-69) is the     *)
(* Summarizer client.                                                      *)
(*                                                                         *)
(* main is one async function: an action of the model is the code that    *)
(* runs between two awaits.  Strings are sequences of one-character        *)
(* strings where the code looks inside them (trim, substring) and plain    *)
(* strings otherwise; the Korean literals of the source are rendered in    *)
(* ASCII.                                                                  *)
(***************************************************************************)
EXTENDS Integers, Sequences, FiniteSets, TLC

VARIABLES
    pc,            \* position of main: "start", "log", "show", "gen", "done"
    outcome,       \* how the run ended ("none" while it runs)
    startDate,     \* answers.startDate, a calendar date [y, m, d]
    endDate,       \* answers.endDate
    tzOffset,      \* offset of the process's local time zone from UTC, in hours
    all,           \* commits.all as returned by git.log
    commitsByDate, \* the grouping, in insertion order: <<[date, commits]>>
    b,             \* index of the day bucket being processed (1-based)
    i,             \* the inner loop's i (0-based, as in the source)
    dailyReport,   \* the report text of the bucket in progress, a sequence of pieces
    showResult,    \* text returned by the git.show in progress
    writes,        \* every fs.writeFileSync attempted: <<[name, content, ok]>>
    trace          \* collaborator calls, started and ended, in order

vars == <<pc, outcome, startDate, endDate, tzOffset, all, commitsByDate, b, i,
          dailyReport, showResult, writes, trace>>

----------------------------------------------------------------------------
(* Bounds of the model. *)

\* First year of the two-year calendar the date window is drawn from.
FirstYear == 2023

\* Longest commit list git.log returns.
MaxCommits == 3

\* Number of hexadecimal digits of a commit hash in the model (git prints 40).
HashLen == 10

LastYear == FirstYear + 1

----------------------------------------------------------------------------
(* Calendar arithmetic of the JavaScript Date object. *)

IsLeap(y) == (y % 4 = 0 /\ y % 100 # 0) \/ y % 400 = 0

\* Days of month m (0-based, as Date.getMonth) of year y.
DaysInMonth(y, m) ==
    CASE m = 1 -> IF IsLeap(y) THEN 29 ELSE 28
      [] m \in {3, 5, 8, 10} -> 30
      [] OTHER -> 31

DaysInYear(y) == IF IsLeap(y) THEN 366 ELSE 365

RECURSIVE DaysBeforeYear(_)
\* Days from 1 January of FirstYear - 1 to 1 January of year y.
DaysBeforeYear(y) ==
    IF y <= FirstYear - 1 THEN 0 ELSE DaysBeforeYear(y - 1) + DaysInYear(y - 1)

RECURSIVE DaysBeforeMonth(_, _)
DaysBeforeMonth(y, m) ==
    IF m = 0 THEN 0 ELSE DaysBeforeMonth(y, m - 1) + DaysInMonth(y, m - 1)

\* MakeDay of the Date object: the day number of day d (1-based, and allowed to
\* exceed the month's length) of month m (0-based, and allowed to exceed 11) of
\* year y.  A month past December carries into the year, a day past the month's
\* end carries into the following month.
MakeDay(y, m, d) ==
    LET yy == y + (m \div 12)
        mm == m % 12
    IN  DaysBeforeYear(yy) + DaysBeforeMonth(yy, mm) + (d - 1)

\* new Date('YYYY-MM-DD'): a date-only string is UTC midnight of that date.
\* Time values are hours since the calendar's origin.
ParseDate(date) == 24 * MakeDay(date.y, date.m - 1, date.d)

\* The calendar date before `date`.
PrevDay(date) ==
    IF date.d > 1 THEN [date EXCEPT !.d = date.d - 1]
    ELSE IF date.m > 1
         THEN [y |-> date.y, m |-> date.m - 1, d |-> DaysInMonth(date.y, date.m - 2)]
         ELSE [y |-> date.y - 1, m |-> 12, d |-> 31]

\* The local calendar date and hour of UTC midnight of `date` in a zone `off`
\* hours from UTC (getMonth, getDate and setMonth work on local time).
LocalDate(date, off) == IF off < 0 THEN PrevDay(date) ELSE date
LocalHour(off) == (24 + off) % 24

\* new Date(startDate) followed by setMonth(getMonth() + 2): the local fields
\* are kept, the month is raised by two, and MakeDay normalises the result.
TwoMonthsLater(date, off) ==
    LET l == LocalDate(date, off)
    IN  24 * MakeDay(l.y, (l.m - 1) + 2, l.d) + LocalHour(off) - off

\* The comparison with its operands exchanged.
InvalidRange_Swapped(s, e) == ParseDate(e) > ParseDate(s)

\* startDate > endDate
InvalidRange(s, e) == ParseDate(s) > ParseDate(e)

\* endDate > twoMonthsLater
RangeTooLarge(s, e, off) == ParseDate(e) > TwoMonthsLater(s, off)

ValidDate(date) == date.d <= DaysInMonth(date.y, date.m - 1)

----------------------------------------------------------------------------
(* Inputs. *)

\* Time zones of the process, as fixed offsets from UTC in hours: one west of
\* UTC and one east of it (a zone at UTC itself behaves as the eastern one:
\* UTC midnight falls on the same local calendar date).
TzOffsets == {-5, 9}

\* Date windows of the full run: one that is accepted, one that is too large
\* and two that are out of order.
RunStartDates == { [y |-> 2024, m |-> 1, d |-> 1],
                   [y |-> 2024, m |-> 4, d |-> 1] }
RunEndDates == { [y |-> 2024, m |-> 1, d |-> 2],
                 [y |-> 2024, m |-> 3, d |-> 31] }

\* Date windows of the range check: every date from November of FirstYear to
\* May of LastYear.
RangeDates == { date \in [y : FirstYear .. LastYear, m : 1 .. 12, d : 1 .. 31] :
                  /\ ValidDate(date)
                  /\ \/ date.y = FirstYear /\ date.m >= 11
                     \/ date.y = LastYear /\ date.m <= 5 }

\* A full hash as %H prints it: HashLen hexadecimal digits beginning with
\* `prefix`.
FullHash(prefix) == prefix \o [j \in 1 .. HashLen - Len(prefix) |-> "0"]

\* The commits the repository holds.  date is the author date as %ai prints it:
\* local calendar date and hour, and the author's offset from UTC in hours.
Universe == {
    [hash |-> FullHash(<<"1", "a", "2", "b", "3", "c", "4", "d">>),
     date |-> [y |-> 2024, m |-> 1, d |-> 1, h |-> 23, off |-> -5],
     message |-> "fix parser"],
    [hash |-> FullHash(<<"5", "e", "6", "f", "7", "a", "8", "b">>),
     date |-> [y |-> 2024, m |-> 1, d |-> 2, h |-> 1, off |-> 9],
     message |-> "add tests"],
    [hash |-> FullHash(<<"9", "c", "0", "d", "1", "e", "2", "f">>),
     date |-> [y |-> 2024, m |-> 1, d |-> 1, h |-> 12, off |-> 0],
     message |-> "update docs"],
    [hash |-> FullHash(<<"3", "a", "4", "b", "5", "c", "6", "d">>),
     date |-> [y |-> 2024, m |-> 1, d |-> 3, h |-> 9, off |-> 9],
     message |-> "bump version"] }

\* What git.log may return: any list of distinct commits, in any order.
CommitLists ==
    { l \in UNION { [1 .. n -> Universe] : n \in 0 .. MaxCommits } :
        \A j, k \in DOMAIN l : j # k => l[j] # l[k] }

\* What git.show returns when it succeeds.
ShowText == <<"d", "i", "f", "f">>

\* What the chat completion may do: reject, or resolve with a message content
\* that is empty, only whitespace, or text with whitespace around it.
Responses == {
    [throws |-> TRUE, content |-> <<>>],
    [throws |-> FALSE, content |-> <<>>],
    [throws |-> FALSE, content |-> <<" ", "\n">>],
    [throws |-> FALSE, content |-> <<" ", "o", "k", "\n">>] }

----------------------------------------------------------------------------
(* Date of a commit. *)

\* new Date(commit.date): the time value of a local time with its offset.
CommitTime(ts) == 24 * MakeDay(ts.y, ts.m - 1, ts.d) + ts.h - ts.off

RECURSIVE YearFromDay(_, _)
YearFromDay(n, y) == IF n < DaysBeforeYear(y + 1) THEN y ELSE YearFromDay(n, y + 1)

RECURSIVE MonthFromDay(_, _, _)
MonthFromDay(n, y, m) ==
    IF n < DaysBeforeMonth(y, m + 1) THEN m ELSE MonthFromDay(n, y, m + 1)

\* toISOString().split('T')[0]: the UTC calendar date of time value t.
IsoDate(t) ==
    LET n  == t \div 24
        y  == YearFromDay(n, FirstYear - 1)
        dy == n - DaysBeforeYear(y)
        m  == MonthFromDay(dy, y, 0)
    IN  [y |-> y, m |-> m + 1, d |-> dy - DaysBeforeMonth(y, m) + 1]

\* The date as the author's clock showed it, the offset ignored.
CommitDate_Local(commit) ==
    [y |-> commit.date.y, m |-> commit.date.m, d |-> commit.date.d]

\* const commitDate = new Date(commit.date).toISOString().split('T')[0]
CommitDate(commit) == IsoDate(CommitTime(commit.date))

\* Index of the bucket of `date` in grouping g, 0 when there is none.
BucketIndex(g, date) ==
    IF \E k \in DOMAIN g : g[k].date = date
    THEN CHOOSE k \in DOMAIN g : g[k].date = date
    ELSE 0

RECURSIVE GroupFrom(_, _, _)
\* The grouping loop from commit k on: a new key is inserted after the keys
\* already there (Object.entries lists string keys in insertion order).
GroupFrom(commits, k, g) ==
    IF k > Len(commits) THEN g
    ELSE LET date == CommitDate(commits[k])
             at   == BucketIndex(g, date)
             g1   == IF at = 0
                     THEN Append(g, [date |-> date, commits |-> <<>>])
                     ELSE g
             at1  == IF at = 0 THEN Len(g1) ELSE at
         IN  GroupFrom(commits, k + 1,
                       [g1 EXCEPT ![at1].commits = Append(@, commits[k])])

GroupByDate(commits) == GroupFrom(commits, 1, <<>>)

----------------------------------------------------------------------------
(* generateMessage. *)

Whitespace == {" ", "\n", "\t"}

RECURSIVE TrimStart(_)
TrimStart(s) ==
    IF s # <<>> /\ Head(s) \in Whitespace THEN TrimStart(Tail(s)) ELSE s

RECURSIVE TrimEnd(_)
TrimEnd(s) ==
    IF s # <<>> /\ s[Len(s)] \in Whitespace
    THEN TrimEnd(SubSeq(s, 1, Len(s) - 1))
    ELSE s

\* The content taken as it is.
Trim_None(s) == s

\* String.prototype.trim
Trim(s) == TrimEnd(TrimStart(s))

\* The instruction put before the show text.
PromptPrefix == <<"e", "x", "p", "l", "a", "i", "n", ":", "\n", "\n">>

\* !prompt || typeof prompt !== 'string'
PromptMissing(prompt) == Len(prompt) = 0

\* generateMessage(prompt) when the completion call does `response`: the
\* returned text, or the error thrown.  A rejection stands for every throw
\* that does not depend on the prompt, the missing API key included.
GenerateMessage(prompt, response) ==
    IF PromptMissing(prompt)
    THEN [ok |-> FALSE, text |-> <<>>, message |-> "prompt must be a string"]
    ELSE IF response.throws
    THEN [ok |-> FALSE, text |-> <<>>, message |-> "request failed"]
    ELSE LET text == Trim(response.content)
         IN  IF text = <<>>
             THEN [ok |-> FALSE, text |-> <<>>, message |-> "no valid response"]
             ELSE [ok |-> TRUE, text |-> text, message |-> ""]

----------------------------------------------------------------------------
(* Report assembly. *)

\* One character too many.
Abbrev_8(hash) == SubSeq(hash, 1, IF Len(hash) < 8 THEN Len(hash) ELSE 8)

\* commit.hash.substring(0, 7)
Abbrev(hash) == SubSeq(hash, 1, IF Len(hash) < 7 THEN Len(hash) ELSE 7)

\* The title line and the count line.
ReportHeader(date, n) ==
    << [kind |-> "title", date |-> date],
       [kind |-> "count", n |-> n] >>

\* The pieces appended for a summarised commit.
SuccessEntry(idx, commit, aiSummary) ==
    << [kind |-> "heading", num |-> idx + 1, hash |-> Abbrev(commit.hash),
        error |-> FALSE],
       [kind |-> "message", text |-> commit.message],
       [kind |-> "summary", text |-> aiSummary],
       [kind |-> "separator"] >>

\* The pieces appended by the catch block.
ErrorEntry(idx, commit, message) ==
    << [kind |-> "heading", num |-> idx + 1, hash |-> Abbrev(commit.hash),
        error |-> TRUE],
       [kind |-> "error", text |-> message] >>

\* `commit-report-${date}.md`
FileName(date) == <<"commit-report-", date, ".md">>

----------------------------------------------------------------------------
(* The loops. *)

\* The loop stopping one commit early.
InnerLoopContinues_Short(idx, n) == idx < n - 1

\* i < dateCommits.length
InnerLoopContinues(idx, n) == idx < n

\* A single commit taken for none.
NoCommits_OffByOne(commits) == Len(commits) <= 1

\* !commits.all || commits.all.length === 0
NoCommits(commits) == Len(commits) = 0

\* A failed commit tried again.
NextIndex_Retry(idx, failed) == IF failed THEN idx ELSE idx + 1

\* i++ after the body of the inner loop, whether the try block or the catch
\* block ended it.
NextIndex(idx, failed) == idx + 1

\* A failed write left to the outer catch.
AfterWrite_Rethrow(ok) == IF ok THEN "next_date" ELSE "outer_catch"

\* Where control goes after fs.writeFileSync: its catch block only logs, so the
\* outer loop goes on either way.
AfterWrite(ok) == "next_date"

\* The rejection swallowed and taken for an empty list.
AfterLogFailure_Swallowed == "NoCommits"

\* Where control goes when the await of git.log throws: the outer catch.
AfterLogFailure == "FetchFailure"

\* A collaborator call started or ended: the call, its argument (the hash for
\* git.show and for the completion request made for that commit, the date for
\* a file write), whether it succeeded, and the content a completion carried.
Event(ev, key, ok) == [ev |-> ev, key |-> key, ok |-> ok, content |-> <<>>]

RECURSIVE Continue(_, _, _, _, _, _, _)
\* The outer and inner loop over grouping g from bucket bk, index idx, up to
\* the next await (a git.show is started) or to the end of main.  rep is dailyReport, tr the
\* trace, ws the writes so far; wok says whether a write made now succeeds.
Continue(g, bk, idx, rep, tr, ws, wok) ==
    IF bk > Len(g)
    THEN [pc |-> "done", outcome |-> "Completed", b |-> bk, i |-> idx,
          dailyReport |-> rep, trace |-> tr, writes |-> ws]
    ELSE LET bucket == g[bk]
         IN  IF InnerLoopContinues(idx, Len(bucket.commits))
             THEN [pc |-> "show", outcome |-> "none", b |-> bk, i |-> idx,
                   dailyReport |-> rep,
                   trace |-> Append(tr, Event("show_start",
                                              bucket.commits[idx + 1].hash, TRUE)),
                   writes |-> ws]
             ELSE LET ws1 == Append(ws, [name |-> FileName(bucket.date),
                                         content |-> rep, ok |-> wok])
                      tr1 == Append(tr, Event("write", bucket.date, wok))
                  IN  IF AfterWrite(wok) = "next_date"
                      THEN IF bk + 1 > Len(g)
                           THEN Continue(g, bk + 1, 0, <<>>, tr1, ws1, wok)
                           ELSE Continue(g, bk + 1, 0,
                                         ReportHeader(g[bk + 1].date,
                                             Len(g[bk + 1].commits)),
                                         tr1, ws1, wok)
                      ELSE [pc |-> "done", outcome |-> "Aborted", b |-> bk,
                            i |-> idx, dailyReport |-> rep, trace |-> tr1,
                            writes |-> ws1]

\* The state after the loops ran on to n.
Goto(n) ==
    /\ pc' = n.pc
    /\ outcome' = n.outcome
    /\ b' = n.b
    /\ i' = n.i
    /\ dailyReport' = n.dailyReport
    /\ trace' = n.trace
    /\ writes' = n.writes

----------------------------------------------------------------------------
(* The run. *)

InitWith(starts, ends) ==
    /\ pc = "start"
    /\ outcome = "none"
    /\ startDate \in starts
    /\ endDate \in ends
    /\ tzOffset \in TzOffsets
    /\ all = <<>>
    /\ commitsByDate = <<>>
    /\ b = 0
    /\ i = 0
    /\ dailyReport = <<>>
    /\ showResult = <<>>
    /\ writes = <<>>
    /\ trace = <<>>

Init == InitWith(RunStartDates, RunEndDates)

InitRange == InitWith(RangeDates, RangeDates)

\* main up to the await of git.log: the date validation.
Validate ==
    /\ pc = "start"
    /\ \/ /\ InvalidRange(startDate, endDate)
          /\ pc' = "done"
          /\ outcome' = "InvalidRange"
          /\ UNCHANGED trace
       \/ /\ ~InvalidRange(startDate, endDate)
          /\ RangeTooLarge(startDate, endDate, tzOffset)
          /\ pc' = "done"
          /\ outcome' = "RangeTooLarge"
          /\ UNCHANGED trace
       \/ /\ ~InvalidRange(startDate, endDate)
          /\ ~RangeTooLarge(startDate, endDate, tzOffset)
          /\ pc' = "log"
          /\ outcome' = "none"
          /\ trace' = Append(trace, Event("log_start", "log", TRUE))
    /\ UNCHANGED <<startDate, endDate, tzOffset, all, commitsByDate, b, i,
                   dailyReport, showResult, writes>>

\* git.log rejects: the outer catch reports it and main ends.
LogFails ==
    /\ pc = "log"
    /\ pc' = "done"
    /\ outcome' = AfterLogFailure
    /\ trace' = Append(trace, Event("log_end", "log", FALSE))
    /\ UNCHANGED <<startDate, endDate, tzOffset, all, commitsByDate, b, i,
                   dailyReport, showResult, writes>>

\* git.log resolves: the empty check, the grouping, and the loops up to the
\* first git.show.
LogReturns ==
    /\ pc = "log"
    /\ \E commits \in CommitLists, wok \in BOOLEAN :
          /\ all' = commits
          /\ IF NoCommits(commits)
             THEN /\ commitsByDate' = <<>>
                  /\ pc' = "done"
                  /\ outcome' = "NoCommits"
                  /\ trace' = Append(trace, Event("log_end", "log", TRUE))
                  /\ UNCHANGED <<b, i, dailyReport, writes>>
             ELSE /\ commitsByDate' = GroupByDate(commits)
                  /\ Goto(Continue(commitsByDate', 1, 0,
                                   ReportHeader(commitsByDate'[1].date,
                                                Len(commitsByDate'[1].commits)),
                                   Append(trace, Event("log_end", "log", TRUE)),
                                   writes, wok))
    /\ UNCHANGED <<startDate, endDate, tzOffset, showResult>>

\* The commit the inner loop is at.
Commit == commitsByDate[b].commits[i + 1]

\* git.show rejects: the catch block records the error, and the loops go on.
ShowFails ==
    /\ pc = "show"
    /\ \E wok \in BOOLEAN :
          Goto(Continue(commitsByDate, b, NextIndex(i, TRUE),
                        dailyReport \o ErrorEntry(i, Commit, "show failed"),
                        Append(trace, Event("show_end", Commit.hash, FALSE)),
                        writes, wok))
    /\ UNCHANGED <<startDate, endDate, tzOffset, all, commitsByDate, showResult>>

\* git.show resolves: generateMessage is called with the prompt.
ShowReturns ==
    /\ pc = "show"
    /\ showResult' = ShowText
    /\ pc' = "gen"
    /\ trace' = trace \o << Event("show_end", Commit.hash, TRUE),
                           Event("gen_start", Commit.hash, TRUE) >>
    /\ UNCHANGED <<outcome, startDate, endDate, tzOffset, all, commitsByDate, b,
                   i, dailyReport, writes>>

\* The completion call settles: generateMessage returns or throws, the entry
\* is appended, and the loops go on.
GenReturns ==
    /\ pc = "gen"
    /\ \E response \in Responses, wok \in BOOLEAN :
          LET r == GenerateMessage(PromptPrefix \o showResult, response)
          IN  Goto(Continue(commitsByDate, b, NextIndex(i, ~r.ok),
                            dailyReport \o
                               (IF r.ok THEN SuccessEntry(i, Commit, r.text)
                                        ELSE ErrorEntry(i, Commit, r.message)),
                            Append(trace, [ev |-> "gen_end", key |-> Commit.hash,
                                           ok |-> ~response.throws,
                                           content |-> response.content]),
                            writes, wok))
    /\ UNCHANGED <<startDate, endDate, tzOffset, all, commitsByDate, showResult>>

Next ==
    \/ Validate
    \/ LogFails
    \/ LogReturns
    \/ ShowFails
    \/ ShowReturns
    \/ GenReturns

Spec == Init /\ [][Next]_vars

\* The range check alone, over every window of RangeDates.
SpecRange == InitRange /\ [][Validate]_vars

----------------------------------------------------------------------------
(* Reading a run: what the properties below speak of. *)

\* Calendar date a lies before calendar date c.
DateBefore(a, c) ==
    \/ a.y < c.y
    \/ a.y = c.y /\ a.m < c.m
    \/ a.y = c.y /\ a.m = c.m /\ a.d < c.d

\* The instant of commit c lies within the UTC day `date`.
OnUtcDate(c, date) ==
    /\ 24 * MakeDay(date.y, date.m - 1, date.d) <= CommitTime(c.date)
    /\ CommitTime(c.date) < 24 * MakeDay(date.y, date.m - 1, date.d) + 24

\* A text with no character other than whitespace.
Blank(content) == \A j \in DOMAIN content : content[j] \in Whitespace

\* Positions of the trace holding event ev, and holding event ev of `key`.
Positions(ev) == { p \in DOMAIN trace : trace[p].ev = ev }
Calls(ev, key) == { p \in DOMAIN trace : trace[p].ev = ev /\ trace[p].key = key }

LogSucceeded == \E p \in Positions("log_end") : trace[p].ok
LogFailed == \E p \in Positions("log_end") : ~trace[p].ok

\* The run fetched a non-empty commit list and has ended.
RanOnCommits == pc = "done" /\ LogSucceeded /\ all # <<>>

\* Summarising the commit of hash h failed: git.show threw, the completion
\* threw, or the completion carried no text.
SummaryFailed(h) ==
    \/ \E p \in Calls("show_end", h) : ~trace[p].ok
    \/ \E p \in Calls("gen_end", h) : ~trace[p].ok \/ Blank(trace[p].content)

\* Position p of the trace ends the processing of the commit of hash h.
Finishes(p, h) ==
    \/ trace[p].ev = "show_end" /\ trace[p].key = h /\ ~trace[p].ok
    \/ trace[p].ev = "gen_end" /\ trace[p].key = h

FailedCommits == { n \in DOMAIN all : SummaryFailed(all[n].hash) }

RECURSIVE Pieces(_)
\* The reports produced so far, one after the other.
Pieces(ws) == IF ws = <<>> THEN <<>> ELSE Head(ws).content \o Pieces(Tail(ws))

\* The commits of the bucket a written report is for.
ReportCommits(w) ==
    SelectSeq(all, LAMBDA c : OnUtcDate(c, w.name[2]))

\* Piece `piece` is the heading of the j-th commit of its bucket.
HeadingOf(piece, j, commit) ==
    /\ piece.kind = "heading"
    /\ piece.num = j
    /\ Len(piece.hash) = 7
    /\ \A q \in 1 .. 7 : piece.hash[q] = commit.hash[q]
    /\ piece.error <=> SummaryFailed(commit.hash)

\* Piece `piece` is a summary text: not blank, no whitespace around it.
SummaryText(piece) ==
    /\ piece.kind = "summary"
    /\ piece.text # <<>>
    /\ Head(piece.text) \notin Whitespace
    /\ piece.text[Len(piece.text)] \notin Whitespace

RECURSIVE EntriesAsClaimed(_, _, _, _)
\* From position pos on, content holds the entries of commits j, j + 1, ...:
\* heading, subject line, summary or error message, separator.
EntriesAsClaimed(content, pos, j, commits) ==
    IF j > Len(commits) THEN pos = Len(content) + 1
    ELSE /\ pos + 3 <= Len(content)
         /\ HeadingOf(content[pos], j, commits[j])
         /\ content[pos + 1].kind = "message"
         /\ content[pos + 1].text = commits[j].message
         /\ IF content[pos].error
            THEN content[pos + 2].kind = "error"
            ELSE SummaryText(content[pos + 2])
         /\ content[pos + 3].kind = "separator"
         /\ EntriesAsClaimed(content, pos + 4, j + 1, commits)

RECURSIVE EntriesAsWritten(_, _, _, _)
\* From position pos on, content holds the entries of commits j, j + 1, ...:
\* heading, subject line, summary and separator for a summarised commit;
\* heading and error message, and nothing else, for a failed one.
EntriesAsWritten(content, pos, j, commits) ==
    IF j > Len(commits) THEN pos = Len(content) + 1
    ELSE /\ pos + 1 <= Len(content)
         /\ HeadingOf(content[pos], j, commits[j])
         /\ IF content[pos].error
            THEN /\ content[pos + 1].kind = "error"
                 /\ EntriesAsWritten(content, pos + 2, j + 1, commits)
            ELSE /\ pos + 3 <= Len(content)
                 /\ content[pos + 1].kind = "message"
                 /\ content[pos + 1].text = commits[j].message
                 /\ SummaryText(content[pos + 2])
                 /\ content[pos + 3].kind = "separator"
                 /\ EntriesAsWritten(content, pos + 4, j + 1, commits)

\* The date that lies two calendar months after `date`, the day of the month
\* brought back to the last day of the target month when that month is shorter.
PlusTwoMonths(date) ==
    LET m0 == (date.m - 1) + 2
        yy == date.y + (m0 \div 12)
        mm == m0 % 12
        dd == IF date.d > DaysInMonth(yy, mm) THEN DaysInMonth(yy, mm) ELSE date.d
    IN  [y |-> yy, m |-> mm + 1, d |-> dd]

----------------------------------------------------------------------------
(* Properties. *)

\* C1: when a run fetched N commits and k of them failed summarisation (git.show
\* threw, the completion threw, or the completion was empty or blank), the run
\* completes, every commit was processed, and the produced reports hold N commit
\* entries, k of them marked as errors and N - k with a summary text.
C1_FailureIsolation ==
    RanOnCommits =>
        LET produced == Pieces(writes)
            headings == { p \in DOMAIN produced : produced[p].kind = "heading" }
            k        == Cardinality(FailedCommits)
        IN  /\ outcome = "Completed"
            /\ \A n \in DOMAIN all : Calls("show_start", all[n].hash) # {}
            /\ Cardinality(headings) = Len(all)
            /\ Cardinality({ p \in headings : produced[p].error }) = k
            /\ Cardinality({ p \in DOMAIN produced : produced[p].kind = "summary" })
                 = Len(all) - k

\* A run of three commits over two dates in which the first commit's git.show
\* threw, another commit's completion came back blank, and one was summarised.
C1_Witness ==
    /\ RanOnCommits
    /\ Len(all) = 3
    /\ Len(commitsByDate) >= 2
    /\ Cardinality(FailedCommits) = 2
    /\ \E p \in Calls("show_end", all[1].hash) : ~trace[p].ok
    /\ \E p \in Positions("gen_end") :
          trace[p].ok /\ trace[p].content # <<>> /\ Blank(trace[p].content)

\* C2: a failed file write does not abort the run: for every fetched commit the
\* write of the report of its date is attempted, after the commit was
\* processed, whatever happened to the writes before it.
C2_WriteFailureIsolated ==
    RanOnCommits =>
        /\ outcome = "Completed"
        /\ \A n \in DOMAIN all :
              \E w \in Positions("write") :
                 /\ OnUtcDate(all[n], trace[w].key)
                 /\ \E p \in 1 .. w - 1 : Finishes(p, all[n].hash)

\* The first write failed and a second one was attempted.
C2_Witness ==
    /\ pc = "done"
    /\ Len(writes) >= 2
    /\ ~writes[1].ok
    /\ writes[2].ok

\* C3: for start <= end the range check reports RangeTooLarge exactly when end
\* lies after start plus two calendar months, the day of the month adjusted to
\* the month's end where the target month is shorter.
C3_TooLargeIffBeyondTwoMonths ==
    (pc # "start" /\ ~DateBefore(endDate, startDate)) =>
        (outcome = "RangeTooLarge" <=> DateBefore(PlusTwoMonths(startDate), endDate))

\* C4: a window with start > end is reported as InvalidRange, and a run whose
\* range check failed has ended without any collaborator call or file write.
C4_InvalidRangeNoWork ==
    /\ (pc # "start" /\ DateBefore(endDate, startDate)) => outcome = "InvalidRange"
    /\ outcome \in {"InvalidRange", "RangeTooLarge"} =>
          /\ pc = "done"
          /\ trace = <<>>
          /\ writes = <<>>
          /\ all = <<>>
          /\ commitsByDate = <<>>

\* A run ended by InvalidRange.
C4_Witness ==
    /\ pc = "done"
    /\ outcome = "InvalidRange"
    /\ DateBefore(endDate, startDate)

\* C5: when git.log fails the run is aborted: nothing is grouped, git.show and
\* the completion are never called and no file is written.
C5_FetchFailureAborts ==
    LogFailed =>
        /\ pc = "done"
        /\ outcome = "FetchFailure"
        /\ commitsByDate = <<>>
        /\ writes = <<>>
        /\ \A p \in DOMAIN trace : trace[p].ev \in {"log_start", "log_end"}

\* git.log was called and failed.
C5_Witness == LogFailed /\ pc = "done"

RECURSIVE TotalCommits(_)
TotalCommits(g) ==
    IF g = <<>> THEN 0 ELSE Len(Head(g).commits) + TotalCommits(Tail(g))

\* C6: the grouping is a stable partition of the fetched list: each bucket is
\* not empty and holds, in the order of the list, exactly the commits whose
\* instant lies on the bucket's UTC date; no two buckets share a date; every
\* commit has its bucket; the buckets together hold as many commits as fetched.
C6_GroupingPartition ==
    (LogSucceeded /\ all # <<>>) =>
        /\ \A k \in DOMAIN commitsByDate :
              /\ commitsByDate[k].commits # <<>>
              /\ commitsByDate[k].commits =
                    SelectSeq(all, LAMBDA c : OnUtcDate(c, commitsByDate[k].date))
        /\ \A j, k \in DOMAIN commitsByDate :
              j # k => commitsByDate[j].date # commitsByDate[k].date
        /\ \A n \in DOMAIN all :
              \E k \in DOMAIN commitsByDate : OnUtcDate(all[n], commitsByDate[k].date)
        /\ TotalCommits(commitsByDate) = Len(all)

\* Three commits in two buckets, the first and the third of the list in the
\* first bucket, and a commit whose author's calendar date is not its UTC date.
C6_Witness ==
    /\ LogSucceeded
    /\ Len(all) = 3
    /\ Len(commitsByDate) = 2
    /\ commitsByDate[1].commits = <<all[1], all[3]>>
    /\ commitsByDate[2].commits = <<all[2]>>
    /\ \E n \in DOMAIN all : CommitDate_Local(all[n]) # CommitDate(all[n])

\* C7, as stated: in every report each commit of the bucket, in bucket order,
\* has a numbered heading with the 7-character hash, the subject line, the
\* summary or the error message, and a separator after it.
C7_EveryEntryFull ==
    \A w \in DOMAIN writes :
        LET commits == ReportCommits(writes[w])
        IN  EntriesAsClaimed(writes[w].content, 3, 1, commits)

\* C7, amended: in every report each commit of the bucket, in bucket order, has
\* a numbered heading with the 7-character hash; a summarised commit has the
\* subject line, the summary and a separator after it; a failed commit has the
\* error mark in its heading and the error message, no subject line and no
\* separator.
C7_EntriesAsWritten ==
    \A w \in DOMAIN writes :
        LET commits == ReportCommits(writes[w])
            content == writes[w].content
        IN  /\ Len(content) >= 2
            /\ content[1].kind = "title"
            /\ content[1].date = writes[w].name[2]
            /\ content[2].kind = "count"
            /\ content[2].n = Len(commits)
            /\ EntriesAsWritten(content, 3, 1, commits)

\* A report of two commits, the first failed and the second summarised.
C7_Witness ==
    \E w \in DOMAIN writes :
        /\ Len(ReportCommits(writes[w])) = 2
        /\ SummaryFailed(ReportCommits(writes[w])[1].hash)
        /\ ~SummaryFailed(ReportCommits(writes[w])[2].hash)

\* C8: when the listing succeeded and no write failed, the files written are
\* exactly commit-report-<d>.md for the UTC dates d of the fetched commits,
\* each written once; with no commit fetched nothing is written and the run
\* ends with the "no commits" outcome.
C8_FilesWritten ==
    (pc = "done" /\ LogSucceeded /\ \A w \in DOMAIN writes : writes[w].ok) =>
        /\ all = <<>> => (outcome = "NoCommits" /\ writes = <<>>)
        /\ \A w \in DOMAIN writes :
              /\ writes[w].name = <<"commit-report-", writes[w].name[2], ".md">>
              /\ \E n \in DOMAIN all : OnUtcDate(all[n], writes[w].name[2])
        /\ \A n \in DOMAIN all :
              \E w \in DOMAIN writes : OnUtcDate(all[n], writes[w].name[2])
        /\ \A v, w \in DOMAIN writes : v # w => writes[v].name # writes[w].name

\* The window 2024-01-01 .. 2024-01-02 with two commits, both on 2024-01-01:
\* one file, for 2024-01-01.
C8_Witness ==
    /\ pc = "done"
    /\ startDate = [y |-> 2024, m |-> 1, d |-> 1]
    /\ endDate = [y |-> 2024, m |-> 1, d |-> 2]
    /\ Len(all) = 2
    /\ Len(writes) = 1
    /\ writes[1].ok
    /\ writes[1].name[2] = [y |-> 2024, m |-> 1, d |-> 1]

\* C9: nothing is tried twice: git.show is called at most once for a commit and
\* the completion at most once, only after its git.show succeeded; no date is
\* written twice; and when the run has ended every commit had its one git.show,
\* its one completion request if the git.show succeeded, and every date its
\* one write.
C9_NoRetry ==
    /\ \A n \in DOMAIN all :
          LET h      == all[n].hash
              shows  == Calls("show_start", h)
              gens   == Calls("gen_start", h)
              showed == \E p \in Calls("show_end", h) : trace[p].ok
              threw  == \E p \in Calls("show_end", h) : ~trace[p].ok
          IN  /\ Cardinality(shows) <= 1
              /\ Cardinality(gens) <= 1
              /\ gens # {} => showed
              /\ threw => gens = {}
              /\ RanOnCommits =>
                    /\ Cardinality(shows) = 1
                    /\ showed => Cardinality(gens) = 1
                    /\ \E w \in Positions("write") : OnUtcDate(all[n], trace[w].key)
    /\ \A v, w \in Positions("write") : v # w => trace[v].key # trace[w].key
    /\ Len(writes) = Cardinality(Positions("write"))

\* A finished run in which a git.show, a completion and a write failed.
C9_Witness ==
    /\ RanOnCommits
    /\ \E p \in Positions("show_end") : ~trace[p].ok
    /\ \E p \in Positions("gen_end") : ~trace[p].ok
    /\ \E p \in Positions("write") : ~trace[p].ok

EndOf(ev) ==
    CASE ev = "log_start" -> "log_end"
      [] ev = "show_start" -> "show_end"
      [] ev = "gen_start" -> "gen_end"

Starts == {"log_start", "show_start", "gen_start"}

\* The calls started and not ended.
InFlight ==
    { p \in DOMAIN trace :
        /\ trace[p].ev \in Starts
        /\ ~\E q \in p + 1 .. Len(trace) :
              trace[q].ev = EndOf(trace[p].ev) /\ trace[q].key = trace[p].key }

\* The fetched commit of hash h.
CommitOf(h) == all[CHOOSE n \in DOMAIN all : all[n].hash = h]

\* C10: the work is sequential: at most one call is in flight, and a call that
\* was started ends before anything else happens; the git.show and the
\* completion of a commit have ended before the git.show of a later commit
\* starts; a date's report is written after all commits of that date were
\* processed and before a commit of a later bucket is started.
C10_Sequential ==
    LET shows == Positions("show_start")
    IN  /\ Cardinality(InFlight) <= 1
        /\ \A p \in DOMAIN trace :
              (trace[p].ev \in Starts /\ p < Len(trace)) =>
                  /\ trace[p + 1].ev = EndOf(trace[p].ev)
                  /\ trace[p + 1].key = trace[p].key
        /\ \A p, q \in shows :
              p < q => \E e \in p + 1 .. q - 1 : Finishes(e, trace[p].key)
        /\ \A w \in Positions("write") :
              LET before == { s \in shows : s < w }
                  ofDate == { s \in before :
                                OnUtcDate(CommitOf(trace[s].key), trace[w].key) }
              IN  /\ \A n \in DOMAIN all :
                        OnUtcDate(all[n], trace[w].key) =>
                            \E e \in 1 .. w - 1 : Finishes(e, all[n].hash)
                  /\ \A s \in before \ ofDate : \A t \in ofDate : s < t
                  /\ \A s \in shows \ before :
                        ~OnUtcDate(CommitOf(trace[s].key), trace[w].key)

\* A finished run of three commits over two dates.
C10_Witness ==
    /\ RanOnCommits
    /\ Len(all) = 3
    /\ Len(commitsByDate) = 2
    /\ Cardinality(Positions("write")) = 2
    /\ Cardinality(Positions("gen_end")) >= 2

====
